---- MODULE Spec2Model ----
(***************************************************************************)
(* Model of misc/efi-stub/container.c: the loader that reads a Slim        *)
(* Bootloader container out of the .hv section of the EFI application,     *)
(* finds the multiboot header of the hypervisor image, places and copies   *)
(* the ELF segments and the module files, writes the multiboot2 tags and   *)
(* releases its memory.                                                    *)
(*                                                                         *)
(* The container is a flat byte image (img: address -> byte) that the      *)
(* operations read field by field at the offsets of the C structures.      *)
(* Writes to allocated memory are kept as a log of memcpy/memset calls     *)
(* (writes); the content of a byte is what the last covering call wrote.   *)
(***************************************************************************)
EXTENDS Integers, Sequences, FiniteSets, TLC

VARIABLES
    cfg,        \* the container the image was built from, and the platform
    img,        \* the bytes of the .hv section: address -> 0..255
    pc,         \* position of the boot driver in the loader's lifecycle
    err,        \* the EFI_STATUS the last operation returned
    ctr,        \* struct container (the loader state record)
    heap,       \* allocations made so far: pool records and page regions
    calls,      \* every allocator / deallocator call, in order
    writes,     \* every memcpy / memset into allocated memory, in order
    scans,      \* every header scan: who scanned, from where, how far
    faults,     \* reads through dangling or NULL pointers, frees of bad ones
    bootcmd_tag,\* buffer handed to fill_bootcmd_tag
    module_tag  \* buffer handed to fill_module_tag (and the index asked for)

vars == <<cfg, img, pc, err, ctr, heap, calls, writes, scans, faults, bootcmd_tag, module_tag>>

----------------------------------------------------------------------------
(* Bounds of the model *)

\* largest number of (command line, binary) module pairs in a container
MaxMods == 2
\* longest UEFI load-option string, in CHAR16 characters
MaxOptLen == 2
\* largest number of program headers in the hypervisor ELF
MaxSegs == 2
\* bytes of the caller's memory watched behind a tag buffer
TagGuard == 2

----------------------------------------------------------------------------
(* Program constants *)

LZH_BOOT_CMD == 0
LZH_BOOT_IMG == 1
LZH_MOD0_CMD == 2

NULL == 0

\* UINTN is 64 bits wide.  TLC's integers are 32 bits wide, so the modulus of
\* UINTN arithmetic is scaled to 2^30; every size, count and address of the
\* model is far below it, so only a wrapped subtraction comes near it.
UINTN_MOD == 1073741824

EFI_PAGE_SIZE == 4096
EFI_SUCCESS == 0
EFI_LOAD_ERROR == 1
EFI_INVALID_PARAMETER == 2
EFI_OUT_OF_RESOURCES == 9
EFI_NOT_FOUND == 14

MULTIBOOT_SEARCH == 8192
MULTIBOOT_HEADER_ALIGN == 4
MULTIBOOT2_SEARCH == 32768
MULTIBOOT2_HEADER_ALIGN == 8
MULTIBOOT2_TAG_ALIGN == 8
\* 0x1BADB002 and 0xE85250D6, as the four bytes they occupy in memory
MULTIBOOT_HEADER_MAGIC == <<2, 176, 173, 27>>
MULTIBOOT2_HEADER_MAGIC == <<214, 80, 82, 232>>
MULTIBOOT2_ARCHITECTURE_I386 == <<0, 0, 0, 0>>

MULTIBOOT2_TAG_TYPE_END == 0
MULTIBOOT2_HEADER_TAG_INFORMATION_REQUEST == 1
MULTIBOOT2_HEADER_TAG_ADDRESS == 2
MULTIBOOT2_HEADER_TAG_ENTRY_ADDRESS == 3
MULTIBOOT2_HEADER_TAG_RELOCATABLE == 10
MULTIBOOT2_TAG_TYPE_CMDLINE == 1
MULTIBOOT2_TAG_TYPE_MODULE == 3

PT_LOAD == 1
PT_NOTE == 4

\* sizeof of the fixed-layout structures the loader steps over
SizeofContainerHdr == 16
SizeofComponentEntry == 16
SizeofLzh == 16
SizeofMb2Header == 16
SizeofElf32Ehdr == 52
SizeofElf32Phdr == 32
\* struct multiboot2_tag_string and struct multiboot2_tag_module headers
SizeofTagString == 8
SizeofTagModule == 16
\* struct container without its flexible array: 14 operations and 13 fields
SizeofContainer == 216

ALIGN_UP(x, a) == ((x + a - 1) \div a) * a

EFI_SIZE_TO_PAGES(s) == (s \div EFI_PAGE_SIZE) + (IF s % EFI_PAGE_SIZE # 0 THEN 1 ELSE 0)

Min(a, b) == IF a < b THEN a ELSE b

----------------------------------------------------------------------------
(* 32-bit unsigned values as the four bytes they occupy, least significant *)
(* first, so that sums wrap at 2^32 as they do in C.                       *)

RECURSIVE AddBytes(_, _, _, _)
AddBytes(x, y, i, carry) ==
    IF i > 4 THEN <<>>
    ELSE LET s == x[i] + y[i] + carry
         IN  <<s % 256>> \o AddBytes(x, y, i + 1, s \div 256)

Add32(x, y) == AddBytes(x, y, 1, 0)

Neg32(x) == Add32([i \in 1..4 |-> 255 - x[i]], <<1, 0, 0, 0>>)

Bytes16(v) == <<v % 256, v \div 256>>

Bytes32(v) == <<v % 256, (v \div 256) % 256, (v \div 65536) % 256, v \div 16777216>>

Zeros(n) == [i \in 1..n |-> 0]

Pad(s, a) == s \o Zeros(ALIGN_UP(Len(s), a) - Len(s))

----------------------------------------------------------------------------
(* The containers the loader is run on.  A container is described by cfg   *)
(* and laid out as bytes the way the stitching tool lays it out: header,   *)
(* component descriptors, then the file records back to back.              *)

\* where the EFI application is loaded and where its .hv section starts
ImageBase == 16 * EFI_PAGE_SIZE
SecAddr == EFI_PAGE_SIZE
HdrBase == ImageBase + SecAddr

\* the load range the address tag of the hypervisor declares
LoadAddr == 256 * EFI_PAGE_SIZE
HvRamSize == 2 * EFI_PAGE_SIZE
EntryAddr == LoadAddr + 32
\* the bounds and alignment the relocatable tag declares
RelocMin == 512 * EFI_PAGE_SIZE
RelocMax == 1024 * EFI_PAGE_SIZE
RelocAlign == 256 * EFI_PAGE_SIZE

TagHdr(type, size) == Bytes16(type) \o Bytes16(0) \o Bytes32(size)

TagBytes(kind) ==
    CASE kind = "info"   -> Pad(TagHdr(MULTIBOOT2_HEADER_TAG_INFORMATION_REQUEST, 12) \o Bytes32(6), 8)
      [] kind = "addr"   -> TagHdr(MULTIBOOT2_HEADER_TAG_ADDRESS, 24) \o Bytes32(LoadAddr)
                               \o Bytes32(LoadAddr) \o Bytes32(LoadAddr + HvRamSize) \o Bytes32(0)
      [] kind = "entry"  -> Pad(TagHdr(MULTIBOOT2_HEADER_TAG_ENTRY_ADDRESS, 12) \o Bytes32(EntryAddr), 8)
      [] kind = "entry0" -> Pad(TagHdr(MULTIBOOT2_HEADER_TAG_ENTRY_ADDRESS, 12) \o Bytes32(0), 8)
      [] kind = "reloc"  -> TagHdr(MULTIBOOT2_HEADER_TAG_RELOCATABLE, 24) \o Bytes32(RelocMin)
                               \o Bytes32(RelocMax) \o Bytes32(RelocAlign) \o Bytes32(0)
      [] kind = "unk"    -> Pad(TagHdr(5, 20) \o Zeros(12), 8)

RECURSIVE TagListBytes(_)
TagListBytes(tags) ==
    IF tags = <<>> THEN TagHdr(MULTIBOOT2_TAG_TYPE_END, 8)
    ELSE TagBytes(Head(tags)) \o TagListBytes(Tail(tags))

\* a multiboot2 header: "ok" is well formed, "badsum" has a checksum off by
\* one, "badarch" names another architecture under a checksum that adds up
Mb2Bytes(v2, tags) ==
    LET tl   == TagListBytes(tags)
        arch == IF v2 = "badarch" THEN <<4, 0, 0, 0>> ELSE MULTIBOOT2_ARCHITECTURE_I386
        hlen == Bytes32(SizeofMb2Header + Len(tl))
        sum  == Neg32(Add32(Add32(MULTIBOOT2_HEADER_MAGIC, arch), hlen))
        chk  == IF v2 = "badsum" THEN Add32(sum, <<1, 0, 0, 0>>) ELSE sum
    IN  MULTIBOOT2_HEADER_MAGIC \o arch \o hlen \o chk \o tl

\* a multiboot (v1) header asking for the memory map, padded to 16 bytes
Mb1Bytes ==
    LET flags == <<2, 0, 0, 0>>
    IN  Pad(MULTIBOOT_HEADER_MAGIC \o flags \o Neg32(Add32(MULTIBOOT_HEADER_MAGIC, flags)), 16)

\* the program headers the ELF images are made of; d is the file offset of
\* the segment data, paddr is relative to the start of the load range
SegKinds == {"copyfill", "copy", "off0", "toolong", "mem0", "note", "overlap"}

SegOf(kind, d) ==
    CASE kind = "copyfill" -> [type |-> PT_LOAD, offset |-> d,     filesz |-> 2, memsz |-> 4, paddr |-> LoadAddr]
      [] kind = "copy"     -> [type |-> PT_LOAD, offset |-> d + 2, filesz |-> 2, memsz |-> 2, paddr |-> LoadAddr + 8]
      [] kind = "off0"     -> [type |-> PT_LOAD, offset |-> 0,     filesz |-> 2, memsz |-> 3, paddr |-> LoadAddr + 16]
      [] kind = "toolong"  -> [type |-> PT_LOAD, offset |-> d,     filesz |-> 3, memsz |-> 2, paddr |-> LoadAddr + 24]
      [] kind = "mem0"     -> [type |-> PT_LOAD, offset |-> d,     filesz |-> 2, memsz |-> 0, paddr |-> LoadAddr + 32]
      [] kind = "note"     -> [type |-> PT_NOTE, offset |-> d,     filesz |-> 2, memsz |-> 2, paddr |-> LoadAddr + 40]
      [] kind = "overlap"  -> [type |-> PT_LOAD, offset |-> d + 4, filesz |-> 1, memsz |-> 3, paddr |-> LoadAddr + 2]

PhdrBytes(s) ==
    Bytes32(s.type) \o Bytes32(s.offset) \o Bytes32(s.paddr) \o Bytes32(s.paddr)
        \o Bytes32(s.filesz) \o Bytes32(s.memsz) \o Bytes32(0) \o Bytes32(0)

RECURSIVE Flatten(_)
Flatten(ss) == IF ss = <<>> THEN <<>> ELSE Head(ss) \o Flatten(Tail(ss))

\* file offsets inside the hypervisor image: multiboot headers follow the
\* program headers, the segment data follows the multiboot headers
MbOff(c) == ALIGN_UP(SizeofElf32Ehdr + SizeofElf32Phdr * Len(c.segs), 8)

MbArea(c) ==
    (IF c.v1 THEN Mb1Bytes ELSE <<>>)
        \o (IF c.v2 = "none" THEN <<>> ELSE Pad(Mb2Bytes(c.v2, c.tags), 8))

SegDataOff(c) == MbOff(c) + Len(MbArea(c))

SegData == <<17, 18, 19, 20, 21, 22, 23, 24>>

Segs(c) == [i \in 1..Len(c.segs) |-> SegOf(c.segs[i], SegDataOff(c))]

ElfBytes(c) ==
    LET ehdr == <<127, 69, 76, 70>> \o Zeros(24) \o Bytes32(SizeofElf32Ehdr) \o Zeros(10)
                    \o Bytes16(SizeofElf32Phdr) \o Bytes16(Len(c.segs)) \o Zeros(6)
        ph   == Flatten([i \in 1..Len(c.segs) |-> PhdrBytes(Segs(c)[i])])
    IN  Pad(ehdr \o ph, 8) \o MbArea(c) \o SegData

\* the embedded file records: [Size, Data], Data holding the first bytes of
\* the file (a module binary is Size bytes long, the rest reads as zero)
ModSizes == <<1, EFI_PAGE_SIZE, EFI_PAGE_SIZE + 1>>

ModSize(c, k) == ModSizes[((k + c.mods) % 3) + 1]

CmdBytes(c) ==
    CASE c.cmd = "text"  -> <<97, 98, 0>>
      [] c.cmd = "empty" -> <<0>>
      [] c.cmd = "mb1"   -> Mb1Bytes \o <<0>>

FileOf(c, i) ==
    CASE i = LZH_BOOT_CMD -> [Size |-> Len(CmdBytes(c)), Data |-> CmdBytes(c)]
      [] i = LZH_BOOT_IMG -> [Size |-> Len(ElfBytes(c)), Data |-> ElfBytes(c)]
      [] i > 1 /\ i = c.n - 1 -> [Size |-> 4, Data |-> <<83, 73, 71, 0>>]
      [] i > 1 /\ i < c.n - 1 /\ i % 2 = 0 ->
            LET t == [j \in 1..(((i \div 2) % 2) + 1) |-> 108 + j] \o <<0>>
            IN  [Size |-> Len(t), Data |-> t]
      [] i > 1 /\ i < c.n - 1 /\ i % 2 = 1 ->
            LET k == (i - 3) \div 2
            IN  [Size |-> ModSize(c, k), Data |-> SubSeq(<<200 + k, 201>>, 1, Min(2, ModSize(c, k)))]

HashSizeOf(i) == IF i % 2 = 1 THEN 4 ELSE 0

RECURSIVE CompOffset(_, _)
CompOffset(c, i) ==
    IF i = 0 THEN 0
    ELSE ALIGN_UP(CompOffset(c, i - 1) + SizeofLzh + FileOf(c, i - 1).Size, 16)

RECURSIVE CompTableLen(_)
CompTableLen(n) == IF n = 0 THEN 0 ELSE CompTableLen(n - 1) + SizeofComponentEntry + HashSizeOf(n - 1)

DataOffsetOf(c) == ALIGN_UP(SizeofContainerHdr + CompTableLen(c.n), 16)

CompBytes(c, i) ==
    Bytes32(i) \o Bytes32(CompOffset(c, i)) \o Bytes32(FileOf(c, i).Size)
        \o <<0, 0, 0, HashSizeOf(i)>> \o [j \in 1..HashSizeOf(i) |-> 160 + j]

LzhBytes(f) ==
    <<76, 90, 68, 77>> \o Bytes32(f.Size) \o Bytes32(f.Size) \o Bytes16(1) \o <<0, 0>> \o f.Data

At(base, bytes) == [a \in base..(base + Len(bytes) - 1) |-> bytes[a - base + 1]]

RECURSIVE PlaceFiles(_, _)
PlaceFiles(c, i) ==
    IF i = c.n THEN <<>>
    ELSE At(HdrBase + DataOffsetOf(c) + CompOffset(c, i), LzhBytes(FileOf(c, i))) @@ PlaceFiles(c, i + 1)

BuildImage(c) ==
    LET hdr   == <<67, 79, 78, 84, 1, 0>> \o Bytes16(DataOffsetOf(c)) \o Bytes32(0) \o <<0, 0, 0, c.n>>
        comps == Flatten([i \in 1..c.n |-> CompBytes(c, i - 1)])
    IN  At(HdrBase, hdr \o comps) @@ PlaceFiles(c, 0)

----------------------------------------------------------------------------
(* Reading the image.  A byte outside the section reads as zero.           *)

Byte(a) == IF a \in DOMAIN img THEN img[a] ELSE 0

Rd16(a) == Byte(a) + 256 * Byte(a + 1)

Rd32(a) == Byte(a) + 256 * Byte(a + 1) + 65536 * Byte(a + 2) + 16777216 * Byte(a + 3)

Rd32B(a) == <<Byte(a), Byte(a + 1), Byte(a + 2), Byte(a + 3)>>

\* field offsets of LOADER_COMPRESSED_HEADER
LzhSize(lzh) == Rd32(lzh + 8)

LzhData(lzh) == lzh + SizeofLzh

----------------------------------------------------------------------------
(* find_mb1header / find_mb2header: the first position of the window, in   *)
(* steps of the header alignment, whose magic and checksum are right.      *)
(* Only bytes of the section can hold a magic: all others read as zero.    *)

Mb1Match(h) ==
    /\ Rd32B(h) = MULTIBOOT_HEADER_MAGIC
    /\ Add32(Add32(Rd32B(h), Rd32B(h + 4)), Rd32B(h + 8)) = <<0, 0, 0, 0>>

Mb2Match(h) ==
    /\ Rd32B(h) = MULTIBOOT2_HEADER_MAGIC
    /\ Add32(Add32(Add32(Rd32B(h), Rd32B(h + 4)), Rd32B(h + 8)), Rd32B(h + 12)) = <<0, 0, 0, 0>>
    /\ Rd32B(h + 4) = MULTIBOOT2_ARCHITECTURE_I386

SetMin(S) == CHOOSE x \in S : \A y \in S : x <= y

find_mb1header(buffer, len) ==
    LET hits == {h \in DOMAIN img : /\ h >= buffer
                                    /\ h <= buffer + len - 12
                                    /\ (h - buffer) % MULTIBOOT_HEADER_ALIGN = 0
                                    /\ Mb1Match(h)}
    IN  IF hits = {} THEN NULL ELSE SetMin(hits)

find_mb2header(buffer, len) ==
    LET hits == {h \in DOMAIN img : /\ h >= buffer
                                    /\ h <= buffer + len - 12
                                    /\ (h - buffer) % (MULTIBOOT2_HEADER_ALIGN \div 4) = 0
                                    /\ Mb2Match(h)}
    IN  IF hits = {} THEN NULL ELSE SetMin(hits)

parse_mb1header(header, c) == 0

\* parse_mb2header walks the tags after the header; p is the record of the
\* fields of ctr it writes.  ret -1 leaves the fields written so far.
RECURSIVE ParseTags(_, _)
ParseTags(tag, p) ==
    LET type == Rd16(tag)
        next == tag + ALIGN_UP(Rd32(tag + 4), MULTIBOOT2_TAG_ALIGN)
    IN  CASE type = MULTIBOOT2_TAG_TYPE_END -> [p EXCEPT !.ret = 0]
          [] type = MULTIBOOT2_HEADER_TAG_INFORMATION_REQUEST -> ParseTags(next, p)
          [] type = MULTIBOOT2_HEADER_TAG_ADDRESS -> ParseTags(next, [p EXCEPT !.laddr = tag])
          [] type = MULTIBOOT2_HEADER_TAG_ENTRY_ADDRESS ->
                ParseTags(next, [p EXCEPT !.hv_entry = Rd32(tag + 8)])
          [] type = MULTIBOOT2_HEADER_TAG_RELOCATABLE -> ParseTags(next, [p EXCEPT !.reloc = tag])
          [] OTHER -> [p EXCEPT !.ret = -1]

Mb2FinalCheck(p) == IF p.laddr # NULL /\ p.hv_entry = 0 THEN -1 ELSE 0

parse_mb2header(header, c) ==
    LET p == ParseTags(header + SizeofMb2Header,
                       [ret |-> 0, laddr |-> c.laddr, reloc |-> c.reloc, hv_entry |-> c.hv_entry])
    IN  IF p.ret # 0 THEN p ELSE [p EXCEPT !.ret = Mb2FinalCheck(p)]

\* fields of the address tag and of the relocatable tag
LaddrLoadAddr(t) == Rd32(t + 12)

LaddrLoadEndAddr(t) == Rd32(t + 16)

RelocMinAddr(t) == Rd32(t + 8)

RelocMaxAddr(t) == Rd32(t + 12)

RelocAlignOf(t) == Rd32(t + 16)

----------------------------------------------------------------------------
(* The firmware's allocators, by their contract.                           *)

\* the pool addresses allocate_pool hands out
CtrAddr == 2048 * EFI_PAGE_SIZE
IndexAddr == 2049 * EFI_PAGE_SIZE

\* the page addresses a constrained allocation may come back with
PhysCandidates == {512 * EFI_PAGE_SIZE, 516 * EFI_PAGE_SIZE, 768 * EFI_PAGE_SIZE}

Overlaps(a, n, b, m) == a < b + m /\ b < a + n

PagesFree(h, a, size) ==
    \A r \in h : r.kind = "pages" => ~Overlaps(a, ALIGN_UP(size, EFI_PAGE_SIZE), r.addr, ALIGN_UP(r.size, EFI_PAGE_SIZE))

\* addresses emalloc_reserved_aligned may return; NULL stands for a failure
emalloc_reserved_aligned(h, size, align, minaddr, maxaddr) ==
    {NULL} \cup {a \in PhysCandidates : /\ a % align = 0
                                        /\ a >= minaddr
                                        /\ a + size <= maxaddr
                                        /\ PagesFree(h, a, size)}

\* addresses emalloc_fixed_addr may return; NULL stands for a failure
emalloc_fixed_addr(h, size, fixed) ==
    {NULL} \cup {a \in {fixed} : PagesFree(h, a, size)}

Call(fn, by, size, align, minaddr, maxaddr, addr) ==
    [fn |-> fn, by |-> by, size |-> size, align |-> align, min |-> minaddr, max |-> maxaddr, addr |-> addr]

Region(what, kind, addr, size) == [what |-> what, kind |-> kind, addr |-> addr, size |-> size]

----------------------------------------------------------------------------
(* load_acrn_elf *)

Write(by, fn, dst, src, n) == [by |-> by, fn |-> fn, dst |-> dst, src |-> src, n |-> n]

\* the address of program header i
PhdrAt(elf_image, i) == elf_image + Rd32(elf_image + 28) + i * Rd16(elf_image + 42)

\* the program-header loop without the zero fill of [filesz, memsz)
RECURSIVE LoadSegments_no_fill(_, _, _, _, _)
LoadSegments_no_fill(elf_image, hv_hpa, hv_ram_start, i, w) ==
    IF i >= Rd16(elf_image + 44) THEN [err |-> EFI_SUCCESS, writes |-> w]
    ELSE IF \/ Rd32(PhdrAt(elf_image, i)) # PT_LOAD
            \/ Rd32(PhdrAt(elf_image, i) + 20) = 0
            \/ Rd32(PhdrAt(elf_image, i) + 4) = 0
         THEN LoadSegments_no_fill(elf_image, hv_hpa, hv_ram_start, i + 1, w)
    ELSE IF Rd32(PhdrAt(elf_image, i) + 16) > Rd32(PhdrAt(elf_image, i) + 20)
         THEN [err |-> EFI_LOAD_ERROR, writes |-> w]
    ELSE LoadSegments_no_fill(elf_image, hv_hpa, hv_ram_start, i + 1,
             w \o <<Write("load_acrn_elf", "memcpy",
                          hv_hpa + (Rd32(PhdrAt(elf_image, i) + 12) - hv_ram_start),
                          elf_image + Rd32(PhdrAt(elf_image, i) + 4),
                          Rd32(PhdrAt(elf_image, i) + 16))>>)

\* the program-header loop: [err, writes] after the headers i .. e_phnum-1
RECURSIVE LoadSegments(_, _, _, _, _)
LoadSegments(elf_image, hv_hpa, hv_ram_start, i, w) ==
    LET e_phnum     == Rd16(elf_image + 44)
        phdr        == PhdrAt(elf_image, i)
        p_type      == Rd32(phdr)
        p_offset    == Rd32(phdr + 4)
        p_paddr     == Rd32(phdr + 12)
        p_filesz    == Rd32(phdr + 16)
        p_memsz     == Rd32(phdr + 20)
        addr        == hv_hpa + (p_paddr - hv_ram_start)
        copy        == <<Write("load_acrn_elf", "memcpy", addr, elf_image + p_offset, p_filesz)>>
        fill        == IF p_memsz > p_filesz
                       THEN <<Write("load_acrn_elf", "memset", addr + p_filesz, NULL, p_memsz - p_filesz)>>
                       ELSE <<>>
    IN  IF i >= e_phnum THEN [err |-> EFI_SUCCESS, writes |-> w]
        ELSE IF p_type # PT_LOAD \/ p_memsz = 0 \/ p_offset = 0
             THEN LoadSegments(elf_image, hv_hpa, hv_ram_start, i + 1, w)
        ELSE IF p_filesz > p_memsz THEN [err |-> EFI_LOAD_ERROR, writes |-> w]
        ELSE LoadSegments(elf_image, hv_hpa, hv_ram_start, i + 1, w \o copy \o fill)

\* load_acrn_elf asking for the fixed address whatever the header said
HvAllocCall_fixed_only(hv_ram_start, hv_ram_size, reloc, addr) ==
    Call("emalloc_fixed_addr", "load_acrn_elf", hv_ram_size, 0, hv_ram_start, hv_ram_start, addr)

\* which allocator load_acrn_elf asks, and with what
HvAllocCall(hv_ram_start, hv_ram_size, reloc, addr) ==
    IF reloc # NULL
    THEN Call("emalloc_reserved_aligned", "load_acrn_elf", hv_ram_size, RelocAlignOf(reloc),
              RelocMinAddr(reloc), RelocMaxAddr(reloc), addr)
    ELSE Call("emalloc_fixed_addr", "load_acrn_elf", hv_ram_size, 0, hv_ram_start, hv_ram_start, addr)

HvAllocChoices(h, hv_ram_start, hv_ram_size, reloc) ==
    IF reloc # NULL
    THEN emalloc_reserved_aligned(h, hv_ram_size, RelocAlignOf(reloc), RelocMinAddr(reloc), RelocMaxAddr(reloc))
    ELSE emalloc_fixed_addr(h, hv_ram_size, hv_ram_start)

\* load_acrn_elf with the allocator answering a: [err, hv_hpa, call, writes]
load_acrn_elf(elf_image, hv_hpa, hv_ram_start, hv_ram_size, reloc, a) ==
    LET call == HvAllocCall(hv_ram_start, hv_ram_size, reloc, a)
    IN  IF a = NULL
        THEN [err |-> EFI_OUT_OF_RESOURCES, hv_hpa |-> hv_hpa, call |-> call, writes |-> <<>>]
        ELSE LET r == LoadSegments(elf_image, a, hv_ram_start, 0, <<>>)
             IN  [err |-> r.err, hv_hpa |-> a, call |-> call, writes |-> r.writes]

----------------------------------------------------------------------------
(* struct container *)

CtrZero ==
    [ptr |-> NULL, mb_version |-> 0,
     options |-> [present |-> FALSE, chars |-> <<>>], options_size |-> 0, boot_cmdsize |-> 0,
     hv_hpa |-> 0, mod_hpa |-> 0, hv_entry |-> 0, reloc |-> NULL, laddr |-> NULL,
     mod_count |-> 0, total_modsize |-> 0, total_modcmdsize |-> 0,
     lzh_count |-> 0, lzh_ptr |-> <<>>]

\* ctr->lzh_ptr[i]
LzhPtr(c, i) == c.lzh_ptr[i + 1]

\* StrnLen of the CHAR16 load options: the characters before the terminator,
\* at most len of them.  Of a NULL string with len 0 it reads one character
\* through the NULL pointer and returns 0.
StrnLen(options, len) == IF options.present THEN Min(Len(options.chars), len) ELSE 0

\* a CHAR16 stored into a char keeps its low eight bits
Narrow(ch) == ch % 256

----------------------------------------------------------------------------
(* container_deinit.  lzh_ptr is the flexible array that ends the record,  *)
(* so ctr->lzh_ptr is the address just past the fixed part and never NULL. *)
(* After free_pool(ctr) the fields mod_hpa and total_modsize are read from *)
(* freed memory: uaf says what the pool left there.                        *)

UafOutcomes == {"stale", "zero", "junk"}

JunkAddr == 2730 * EFI_PAGE_SIZE
JunkSize == 3 * EFI_PAGE_SIZE

DeinitCalls(c, uaf) ==
    LET lzh_ptr       == c.ptr + SizeofContainer
        mod_hpa       == CASE uaf = "stale" -> c.mod_hpa [] uaf = "zero" -> 0 [] uaf = "junk" -> JunkAddr
        total_modsize == CASE uaf = "stale" -> c.total_modsize [] uaf = "zero" -> 0 [] uaf = "junk" -> JunkSize
    IN  (IF lzh_ptr # NULL
         THEN <<Call("free_pool", "container_deinit", 0, 0, 0, 0, lzh_ptr),
                Call("free_pool", "container_deinit", 0, 0, 0, 0, c.ptr)>>
         ELSE <<>>)
        \o (IF mod_hpa # 0
            THEN <<Call("free_pages", "container_deinit", EFI_SIZE_TO_PAGES(total_modsize), 0, 0, 0, mod_hpa)>>
            ELSE <<>>)

\* what container_deinit reads after it freed the record it reads it from
DeinitFaults(c) == IF c.ptr + SizeofContainer # NULL THEN {"container_deinit reads ctr->mod_hpa after free_pool(ctr)"} ELSE {}

----------------------------------------------------------------------------
(* container_init *)

\* the descriptor walk: the file record addresses of descriptors i .. Count-1
RECURSIVE CacheHeaders(_, _, _)
CacheHeaders(hdr, comp, i) ==
    LET Count      == Byte(hdr + 15)
        DataOffset == Rd16(hdr + 6)
        offset     == DataOffset + Rd32(comp + 4)
        HashSize   == Byte(comp + 15)
    IN  IF i >= Count THEN <<>>
        ELSE <<hdr + offset>> \o CacheHeaders(hdr, comp + SizeofComponentEntry + HashSize, i + 1)

\* pool1, pool2: whether the two allocate_pool calls succeed; section: whether
\* get_pe_section finds .hv; uaf: what the failure path's deinit reads
container_init(pool1, section, pool2, uaf) ==
    /\ pc = "start"
    /\ LET hdr   == HdrBase
           Count == Byte(hdr + 15)
           call1 == Call("allocate_pool", "container_init", SizeofContainer, 0, 0, 0, IF pool1 THEN CtrAddr ELSE NULL)
           call2 == Call("allocate_pool", "container_init", 8 * Count, 0, 0, 0, IF pool2 THEN IndexAddr ELSE NULL)
           c1    == [CtrZero EXCEPT !.ptr = CtrAddr, !.options = cfg.opt,
                                    !.options_size = IF cfg.opt.present THEN 2 * (Len(cfg.opt.chars) + 1) ELSE 0]
           c2    == [c1 EXCEPT !.lzh_count = Count]
           \* allocate_pool stores the list's address in lzh_ptr[0]; the loop
           \* then stores the record addresses in lzh_ptr[0 .. Count-1]
           c3    == [c2 EXCEPT !.lzh_ptr = IF Count = 0 THEN <<IndexAddr>>
                                           ELSE CacheHeaders(hdr, hdr + SizeofContainerHdr, 0)]
       IN  IF ~pool1
           THEN /\ pc' = "init_failed"
                /\ err' = EFI_OUT_OF_RESOURCES
                /\ calls' = calls \o <<call1>>
                /\ UNCHANGED <<ctr, heap, faults>>
           ELSE IF ~section
           THEN /\ pc' = "init_failed"
                /\ err' = EFI_NOT_FOUND
                /\ ctr' = c1
                /\ heap' = heap \cup {Region("ctr", "pool", CtrAddr, SizeofContainer)}
                /\ calls' = calls \o <<call1>> \o DeinitCalls(c1, uaf)
                /\ faults' = faults \cup DeinitFaults(c1)
           ELSE IF ~pool2
           THEN /\ pc' = "init_failed"
                /\ err' = EFI_OUT_OF_RESOURCES
                /\ ctr' = c2
                /\ heap' = heap \cup {Region("ctr", "pool", CtrAddr, SizeofContainer)}
                /\ calls' = calls \o <<call1, call2>> \o DeinitCalls(c2, uaf)
                /\ faults' = faults \cup DeinitFaults(c2)
           ELSE /\ pc' = "indexed"
                /\ err' = EFI_SUCCESS
                /\ ctr' = c3
                /\ heap' = heap \cup {Region("ctr", "pool", CtrAddr, SizeofContainer),
                                      Region("index", "pool", IndexAddr, 8 * Count)}
                /\ calls' = calls \o <<call1, call2>>
                /\ UNCHANGED faults
    /\ UNCHANGED <<cfg, img, writes, scans, bootcmd_tag, module_tag>>

\* the driver releases the handle: after the loads, or after one of them failed
container_deinit(uaf) ==
    /\ pc \in {"indexed", "image_failed", "image_loaded", "modules_failed", "modules_loaded"}
    /\ pc' = "released"
    /\ calls' = calls \o DeinitCalls(ctr, uaf)
    /\ faults' = faults \cup DeinitFaults(ctr)
    /\ UNCHANGED <<cfg, img, err, ctr, heap, writes, scans, bootcmd_tag, module_tag>>

----------------------------------------------------------------------------
(* container_load_boot_image *)

Scan(fn, buffer, len, found) == [fn |-> fn, buffer |-> buffer, len |-> len, found |-> found]

\* after the multiboot2 header at mb2 was parsed with result p
AfterMb2Parse(c1, p, s) ==
    IF p.ret # 0
    THEN [err |-> EFI_INVALID_PARAMETER,
          ctr |-> [c1 EXCEPT !.laddr = p.laddr, !.reloc = p.reloc, !.hv_entry = p.hv_entry], scans |-> s]
    ELSE [err |-> EFI_SUCCESS,
          ctr |-> [c1 EXCEPT !.laddr = p.laddr, !.reloc = p.reloc, !.hv_entry = p.hv_entry, !.mb_version = 2],
          scans |-> s]

\* the else branch: no multiboot2 header, find_mb1header answered mb1
AfterMb1Scan(c1, mb1, s) ==
    IF mb1 = NULL
    THEN [err |-> EFI_INVALID_PARAMETER, ctr |-> c1, scans |-> s]
    ELSE IF parse_mb1header(mb1, c1) # 0
         THEN [err |-> EFI_INVALID_PARAMETER, ctr |-> [c1 EXCEPT !.mb_version = 1], scans |-> s]
         ELSE [err |-> EFI_SUCCESS, ctr |-> [c1 EXCEPT !.mb_version = 1], scans |-> s]

\* the scans the other way round: the v1 header wins when both are there
AfterMb2Scan_v1_first(c1, buffer, mb2) ==
    IF find_mb1header(buffer, MULTIBOOT_SEARCH) # NULL
    THEN AfterMb1Scan(c1, find_mb1header(buffer, MULTIBOOT_SEARCH),
                      <<Scan("find_mb2header", buffer, MULTIBOOT2_SEARCH, mb2),
                        Scan("find_mb1header", buffer, MULTIBOOT_SEARCH, find_mb1header(buffer, MULTIBOOT_SEARCH))>>)
    ELSE AfterMb2Parse(c1, parse_mb2header(mb2, c1), <<Scan("find_mb2header", buffer, MULTIBOOT2_SEARCH, mb2)>>)

\* find_mb2header answered mb2: parse it, or fall back to the v1 scan
AfterMb2Scan(c1, buffer, mb2) ==
    IF mb2 # NULL
    THEN AfterMb2Parse(c1, parse_mb2header(mb2, c1), <<Scan("find_mb2header", buffer, MULTIBOOT2_SEARCH, mb2)>>)
    ELSE AfterMb1Scan(c1, find_mb1header(buffer, MULTIBOOT_SEARCH),
                      <<Scan("find_mb2header", buffer, MULTIBOOT2_SEARCH, mb2),
                        Scan("find_mb1header", buffer, MULTIBOOT_SEARCH, find_mb1header(buffer, MULTIBOOT_SEARCH))>>)

\* both scans are handed the Data of the record lzh points at
ScanHeaders(c1, lzh) == AfterMb2Scan(c1, LzhData(lzh), find_mb2header(LzhData(lzh), MULTIBOOT2_SEARCH))

\* the part up to the header parse: [err, ctr, scans].  lzh is set to
\* lzh_ptr[LZH_BOOT_CMD] for the command size and is still that record
\* when the scans are given lzh->Data.
HeaderStage(c) ==
    ScanHeaders([c EXCEPT !.boot_cmdsize =
                    (LzhSize(LzhPtr(c, LZH_BOOT_CMD)) + StrnLen(c.options, c.options_size)) % UINTN_MOD],
                LzhPtr(c, LZH_BOOT_CMD))

\* ctr->laddr->load_addr and ->load_end_addr; through a NULL laddr they are
\* whatever the platform keeps at the bottom of memory
LoadAddrOf(c) == IF c.laddr = NULL THEN cfg.nullpage.load_addr ELSE LaddrLoadAddr(c.laddr)

LoadEndAddrOf(c) == IF c.laddr = NULL THEN cfg.nullpage.load_end_addr ELSE LaddrLoadEndAddr(c.laddr)

\* the entry address fix-up of a relocated image
FixUpEntry(c, load_addr) ==
    IF c.reloc # NULL THEN [c EXCEPT !.hv_entry = (c.hv_entry + c.hv_hpa - load_addr) % UINTN_MOD] ELSE c

NullOptFault(c) == IF ~c.options.present THEN {"StrnLen reads ctr->options, which is NULL"} ELSE {}

NullLaddrFault(c, by) == IF c.laddr = NULL THEN {by} ELSE {}

\* the call of load_acrn_elf and what follows it; r is what load_acrn_elf
\* returned when the allocator answered a
AfterLoadElf(c, r, a, hv_ram_start, hv_ram_size) ==
    /\ pc' = IF r.err = EFI_SUCCESS THEN "image_loaded" ELSE "image_failed"
    /\ err' = r.err
    /\ ctr' = IF r.err = EFI_SUCCESS
              THEN FixUpEntry([c EXCEPT !.hv_hpa = r.hv_hpa], hv_ram_start)
              ELSE [c EXCEPT !.hv_hpa = r.hv_hpa]
    /\ heap' = IF a = NULL THEN heap ELSE heap \cup {Region("hv", "pages", a, hv_ram_size)}
    /\ calls' = calls \o <<r.call>>
    /\ writes' = writes \o r.writes

\* the header stage ended with hs
AfterHeaderStage(hs, c, hv_ram_start, hv_ram_size) ==
    IF ~ctr.options.present /\ cfg.nullpage.fault
    THEN /\ pc' = "fault"
         /\ faults' = faults \cup NullOptFault(ctr)
         /\ UNCHANGED <<err, ctr, heap, calls, writes, scans>>
    ELSE IF hs.err # EFI_SUCCESS
    THEN /\ pc' = "image_failed"
         /\ err' = hs.err
         /\ ctr' = c
         /\ scans' = scans \o hs.scans
         /\ faults' = faults \cup NullOptFault(ctr)
         /\ UNCHANGED <<heap, calls, writes>>
    ELSE IF c.laddr = NULL /\ cfg.nullpage.fault
    THEN /\ pc' = "fault"
         /\ ctr' = c
         /\ scans' = scans \o hs.scans
         /\ faults' = faults \cup NullOptFault(ctr)
                          \cup NullLaddrFault(c, "container_load_boot_image reads ctr->laddr, which is NULL")
         /\ UNCHANGED <<err, heap, calls, writes>>
    ELSE /\ \E a \in HvAllocChoices(heap, hv_ram_start, hv_ram_size, c.reloc) :
                AfterLoadElf(c, load_acrn_elf(LzhData(LzhPtr(c, LZH_BOOT_IMG)), c.hv_hpa,
                                              hv_ram_start, hv_ram_size, c.reloc, a),
                             a, hv_ram_start, hv_ram_size)
         /\ scans' = scans \o hs.scans
         /\ faults' = faults \cup NullOptFault(ctr)
                          \cup NullLaddrFault(c, "container_load_boot_image reads ctr->laddr, which is NULL")

container_load_boot_image ==
    /\ pc = "indexed"
    /\ \E hs \in {HeaderStage(ctr)} :
           AfterHeaderStage(hs, hs.ctr, LoadAddrOf(hs.ctr), LoadEndAddrOf(hs.ctr) - LoadAddrOf(hs.ctr))
    /\ UNCHANGED <<cfg, img, bootcmd_tag, module_tag>>

----------------------------------------------------------------------------
(* container_load_modules *)

\* the sizing loop: entries i .. lzh_count-2 added to the two totals of c
RECURSIVE ScanModules(_, _)
ScanModules(c, i) ==
    IF i >= (c.lzh_count - 1) % UINTN_MOD THEN c
    ELSE IF i % 2 = 0
         THEN ScanModules([c EXCEPT !.total_modcmdsize = (@ + LzhSize(LzhPtr(c, i))) % UINTN_MOD], i + 1)
         ELSE ScanModules([c EXCEPT !.total_modsize = (@ + ALIGN_UP(LzhSize(LzhPtr(c, i)), EFI_PAGE_SIZE)) % UINTN_MOD], i + 1)

\* the count with only the signature taken off
ModCount_minus_one(lzh_count) == ((lzh_count - 1) % UINTN_MOD) \div 2

ModCount(lzh_count) == ((lzh_count - 3) % UINTN_MOD) \div 2

\* the copy loop: the memcpy calls for the binaries i, i+2, .. below lzh_count-1
RECURSIVE CopyModules(_, _, _)
CopyModules(c, i, p) ==
    IF i >= (c.lzh_count - 1) % UINTN_MOD THEN <<>>
    ELSE LET lzh == LzhPtr(c, i)
         IN  <<Write("container_load_modules", "memcpy", p, LzhData(lzh), LzhSize(lzh))>>
                 \o CopyModules(c, i + 2, p + ALIGN_UP(LzhSize(lzh), EFI_PAGE_SIZE))

\* the size and the place container_load_modules asks the allocator for
ModAllocSize(c) == IF c.reloc # NULL THEN c.total_modsize ELSE LoadEndAddrOf(c) - LoadAddrOf(c)

ModAllocCall(c, addr) ==
    IF c.reloc # NULL
    THEN Call("emalloc_reserved_aligned", "container_load_modules", ModAllocSize(c), EFI_PAGE_SIZE,
              RelocMinAddr(c.reloc), RelocMaxAddr(c.reloc), addr)
    ELSE LET fixed == c.hv_hpa + ALIGN_UP(ModAllocSize(c), EFI_PAGE_SIZE)
         IN  Call("emalloc_fixed_addr", "container_load_modules", ModAllocSize(c), 0, fixed, fixed, addr)

ModAllocChoices(h, c) ==
    IF c.reloc # NULL
    THEN emalloc_reserved_aligned(h, ModAllocSize(c), EFI_PAGE_SIZE, RelocMinAddr(c.reloc), RelocMaxAddr(c.reloc))
    ELSE emalloc_fixed_addr(h, ModAllocSize(c), c.hv_hpa + ALIGN_UP(ModAllocSize(c), EFI_PAGE_SIZE))

container_load_modules ==
    /\ pc = "image_loaded"
    /\ LET c1 == ScanModules(ctr, LZH_MOD0_CMD)
           c2 == [c1 EXCEPT !.mod_count = ModCount(c1.lzh_count)]
           null_laddr == c2.reloc = NULL /\ c2.laddr = NULL
       IN  \E a \in ModAllocChoices(heap, c2) :
               /\ pc' = IF a = NULL THEN "modules_failed" ELSE "modules_loaded"
               /\ err' = IF a = NULL THEN EFI_OUT_OF_RESOURCES ELSE EFI_SUCCESS
               /\ ctr' = IF a = NULL THEN c2 ELSE [c2 EXCEPT !.mod_hpa = a]
               /\ heap' = IF a = NULL THEN heap ELSE heap \cup {Region("mod", "pages", a, ModAllocSize(c2))}
               /\ calls' = calls \o <<ModAllocCall(c2, a)>>
               /\ writes' = IF a = NULL THEN writes ELSE writes \o CopyModules(c2, LZH_BOOT_IMG + 2, a)
               /\ faults' = faults \cup (IF null_laddr THEN {"container_load_modules reads ctr->laddr, which is NULL"} ELSE {})
    /\ UNCHANGED <<cfg, img, scans, bootcmd_tag, module_tag>>

----------------------------------------------------------------------------
(* The accessors *)

container_get_boot_cmdsize(c) == c.boot_cmdsize

container_get_mod_count(c) == c.mod_count

container_get_total_modsize(c) == c.total_modsize

container_get_total_modcmdsize(c) == c.total_modcmdsize

container_get_hv_hpa(c) == c.hv_hpa

container_get_mod_hpa(c) == c.mod_hpa

container_get_multiboot_version(c) == c.mb_version

container_get_hv_entry(c) == c.hv_entry

container_get_hv_ram_size(c) == IF c.laddr # NULL THEN LaddrLoadEndAddr(c.laddr) - LaddrLoadAddr(c.laddr) ELSE 0

----------------------------------------------------------------------------
(* container_fill_bootcmd_tag.  The caller's buffer holds cmdline_size     *)
(* string bytes; TagGuard more bytes behind it are watched.  -1 is a byte  *)
(* the function did not write.  String position i is string[i + 1].        *)

\* the option characters stored one position late
AppendOptions_shifted(string, c, first, cmdline_size) ==
    [i \in 1..Len(string) |->
        IF i - 1 > first /\ i - 1 <= cmdline_size /\ i - 1 - first <= Len(c.options.chars)
        THEN Narrow(c.options.chars[(i - 1) - first])
        ELSE string[i]]

\* the option characters stored at positions first .. cmdline_size-1
AppendOptions(string, c, first, cmdline_size) ==
    [i \in 1..Len(string) |->
        IF i - 1 >= first /\ i - 1 < cmdline_size
        THEN Narrow(c.options.chars[(i - 1) - first + 1])
        ELSE string[i]]

BootcmdString(c) ==
    LET lzh          == LzhPtr(c, LZH_BOOT_CMD)
        Size         == LzhSize(lzh)
        cmdline_size == container_get_boot_cmdsize(c)
        buf          == [i \in 1..(cmdline_size + TagGuard) |-> -1]
        zeroed       == [i \in 1..Len(buf) |-> IF i <= cmdline_size THEN 0 ELSE buf[i]]
        copied       == [i \in 1..Len(buf) |-> IF i <= Size - 1 THEN Byte(LzhData(lzh) + i - 1) ELSE zeroed[i]]
        spaced       == [copied EXCEPT ![Size] = 32]
    IN  IF c.options.present THEN AppendOptions(spaced, c, Size, cmdline_size) ELSE copied

container_fill_bootcmd_tag ==
    /\ pc = "modules_loaded"
    /\ bootcmd_tag' = [type   |-> MULTIBOOT2_TAG_TYPE_CMDLINE,
                       size   |-> SizeofTagString + container_get_boot_cmdsize(ctr),
                       string |-> BootcmdString(ctr)]
    /\ UNCHANGED <<cfg, img, pc, err, ctr, heap, calls, writes, scans, faults, module_tag>>

----------------------------------------------------------------------------
(* container_fill_module_tag *)

TagUnwritten(index) ==
    [index |-> index, type |-> -1, size |-> -1, mod_start |-> -1, mod_end |-> -1, cmdline |-> <<>>]

\* the pair loop advancing by the unrounded module size
RECURSIVE FillModuleLoop_unrounded(_, _, _, _, _)
FillModuleLoop_unrounded(c, tag, index, i, p) ==
    IF i >= (c.lzh_count - 1) % UINTN_MOD THEN tag
    ELSE IF i = index * 2 + LZH_MOD0_CMD
         THEN [tag EXCEPT !.type = MULTIBOOT2_TAG_TYPE_MODULE,
                          !.size = SizeofTagModule + LzhSize(LzhPtr(c, i)),
                          !.mod_start = p,
                          !.mod_end = p + LzhSize(LzhPtr(c, i + 1)),
                          !.cmdline = [j \in 1..LzhSize(LzhPtr(c, i)) |-> Byte(LzhData(LzhPtr(c, i)) + j - 1)]]
         ELSE FillModuleLoop_unrounded(c, tag, index, i + 2, p + LzhSize(LzhPtr(c, i + 1)))

\* the pair loop from entry i on, p being the running module address
RECURSIVE FillModuleLoop(_, _, _, _, _)
FillModuleLoop(c, tag, index, i, p) ==
    IF i >= (c.lzh_count - 1) % UINTN_MOD THEN tag
    ELSE LET mod_lzh == LzhPtr(c, i + 1)
             cmd_lzh == LzhPtr(c, i)
         IN  IF i = index * 2 + LZH_MOD0_CMD
             THEN [tag EXCEPT !.type = MULTIBOOT2_TAG_TYPE_MODULE,
                              !.size = SizeofTagModule + LzhSize(cmd_lzh),
                              !.mod_start = p,
                              !.mod_end = p + LzhSize(mod_lzh),
                              !.cmdline = [j \in 1..LzhSize(cmd_lzh) |-> Byte(LzhData(cmd_lzh) + j - 1)]]
             ELSE FillModuleLoop(c, tag, index, i + 2, p + ALIGN_UP(LzhSize(mod_lzh), EFI_PAGE_SIZE))

fill_module_tag(c, index) == FillModuleLoop(c, TagUnwritten(index), index, LZH_MOD0_CMD, c.mod_hpa)

\* the driver asks for the tags of the modules the loader counted
container_fill_module_tag(index) ==
    /\ pc = "modules_loaded"
    /\ index < container_get_mod_count(ctr)
    /\ module_tag' = fill_module_tag(ctr, index)
    /\ UNCHANGED <<cfg, img, pc, err, ctr, heap, calls, writes, scans, faults, bootcmd_tag>>

----------------------------------------------------------------------------
(* The runs: one container and one platform per behaviour *)

Counts == 2..(2 * MaxMods + 3)

TagLists ==
    {<<"addr", "entry">>, <<"addr", "entry", "reloc">>, <<"info", "reloc", "addr", "entry">>,
     <<"entry">>, <<"addr">>, <<"addr", "entry0">>, <<"reloc", "entry">>,
     <<"reloc", "unk", "addr", "entry">>, <<>>}

Headers ==
    [v1 : BOOLEAN, v2 : {"ok"}, tags : TagLists]
        \cup [v1 : BOOLEAN, v2 : {"none", "badsum", "badarch"}, tags : {<<"addr", "entry">>}]

SegLists == UNION {[1..k -> SegKinds] : k \in 0..MaxSegs}

OptChars == {113, 321}

Options ==
    {[present |-> FALSE, chars |-> <<>>]}
        \cup {[present |-> TRUE, chars |-> s] : s \in UNION {[1..k -> OptChars] : k \in 0..MaxOptLen}}

\* what a read through NULL does: it faults, or it reads the bottom of memory
NullPages ==
    {[fault |-> TRUE,  load_addr |-> 0, load_end_addr |-> 0],
     [fault |-> FALSE, load_addr |-> 0, load_end_addr |-> 0],
     [fault |-> FALSE, load_addr |-> 64 * EFI_PAGE_SIZE, load_end_addr |-> 65 * EFI_PAGE_SIZE]}

Base ==
    [n |-> 5, v1 |-> FALSE, v2 |-> "ok", tags |-> <<"addr", "entry">>, segs |-> <<"copyfill">>,
     cmd |-> "text", opt |-> [present |-> TRUE, chars |-> <<113>>], mods |-> 0,
     nullpage |-> [fault |-> FALSE, load_addr |-> 0, load_end_addr |-> 0]]

Configs ==
    {[Base EXCEPT !.n = n, !.v1 = h.v1, !.v2 = h.v2, !.tags = h.tags, !.nullpage = np] :
        n \in Counts, h \in Headers, np \in NullPages}
    \cup {[Base EXCEPT !.n = 3, !.v1 = h.v1, !.v2 = h.v2, !.tags = h.tags, !.cmd = "mb1"] : h \in Headers}
    \cup {[Base EXCEPT !.n = 3, !.tags = t, !.segs = ss] :
        t \in {<<"addr", "entry">>, <<"addr", "entry", "reloc">>}, ss \in SegLists}
    \cup {[Base EXCEPT !.n = 3, !.cmd = cm, !.opt = o, !.nullpage = np] :
        cm \in {"text", "empty"}, o \in Options, np \in NullPages}
    \cup {[Base EXCEPT !.n = n, !.tags = t, !.mods = m] :
        n \in Counts, t \in {<<"addr", "entry">>, <<"addr", "entry", "reloc">>}, m \in 0..2}

Init ==
    /\ cfg \in Configs
    /\ img = BuildImage(cfg)
    /\ pc = "start"
    /\ err = EFI_SUCCESS
    /\ ctr = CtrZero
    /\ heap = {}
    /\ calls = <<>>
    /\ writes = <<>>
    /\ scans = <<>>
    /\ faults = {}
    /\ bootcmd_tag = [type |-> -1, size |-> -1, string |-> <<>>]
    /\ module_tag = TagUnwritten(-1)

Next ==
    \/ \E pool1, section, pool2 \in BOOLEAN, uaf \in UafOutcomes : container_init(pool1, section, pool2, uaf)
    \/ container_load_boot_image
    \/ container_load_modules
    \/ container_fill_bootcmd_tag
    \/ \E index \in 0..MaxMods : container_fill_module_tag(index)
    \/ \E uaf \in UafOutcomes : container_deinit(uaf)

Spec == Init /\ [][Next]_vars

----------------------------------------------------------------------------
(* What the claims are stated over: the container as it was built (cfg),   *)
(* not as the loader parsed it.                                            *)

\* address of the file record i of the container, and of its bytes
RecordAddr(i) == HdrBase + DataOffsetOf(cfg) + CompOffset(cfg, i)

RecordData(i) == RecordAddr(i) + SizeofLzh

\* the memory byte at address a after the writes w[1..i]: what the last
\* covering memcpy or memset stored, -1 if none did
RECURSIVE MemByteAt(_, _, _)
MemByteAt(w, a, i) ==
    IF i = 0 THEN -1
    ELSE IF w[i].dst <= a /\ a < w[i].dst + w[i].n
         THEN (IF w[i].fn = "memcpy" THEN Byte(w[i].src + (a - w[i].dst)) ELSE 0)
         ELSE MemByteAt(w, a, i - 1)

MemByte(a) == MemByteAt(writes, a, Len(writes))

CallsBy(by) == {i \in DOMAIN calls : calls[i].by = by}

FreeCalls == {i \in DOMAIN calls : calls[i].fn \in {"free_pool", "free_pages"}}

\* the sum of the page-rounded sizes of the module binaries 0 .. k-1
RECURSIVE PageRoundedSum(_)
PageRoundedSum(k) ==
    IF k = 0 THEN 0
    ELSE PageRoundedSum(k - 1) + ALIGN_UP(FileOf(cfg, 2 * (k - 1) + 3).Size, EFI_PAGE_SIZE)

\* the container has the records the ordering invariant names
ValidContainer == cfg.n >= 3

\* the number of (command line, binary) pairs between the boot image and the signature
ModulePairs == IF ValidContainer THEN (cfg.n - 3) \div 2 ELSE 0

----------------------------------------------------------------------------
(* C1 *)

ReleaseRan == pc = "released" \/ (pc = "init_failed" /\ ctr.ptr # NULL)

FreedRight(r, i) ==
    /\ calls[i].addr = r.addr
    /\ IF r.kind = "pool" THEN calls[i].fn = "free_pool"
       ELSE calls[i].fn = "free_pages" /\ calls[i].size = EFI_SIZE_TO_PAGES(r.size)

\* C1: once container_deinit has run after a failure of container_init,
\* load_boot_image or load_modules, every resource the loader acquired has
\* been freed exactly once and with the size it was allocated with, nothing
\* that was never acquired has been freed, and the freed record has not been read.
C1_ReleaseFreesWhatWasAcquired ==
    (ReleaseRan /\ err # EFI_SUCCESS) =>
        /\ \A r \in heap : Cardinality({i \in FreeCalls : calls[i].addr = r.addr}) = 1
        /\ \A r \in heap : \A i \in FreeCalls : calls[i].addr = r.addr => FreedRight(r, i)
        /\ \A i \in FreeCalls : \E r \in heap : calls[i].addr = r.addr
        /\ DeinitFaults(ctr) \cap faults = {}

----------------------------------------------------------------------------
(* C2 *)

PlacementCalls == CallsBy("load_acrn_elf") \cup CallsBy("container_load_modules")

\* C2: when parse_mb2header recorded a relocatable tag, load_acrn_elf and
\* container_load_modules ask emalloc_reserved_aligned, with the tag's
\* min_addr and max_addr, and never emalloc_fixed_addr; when none was
\* recorded both ask emalloc_fixed_addr and never the constrained one.
C2_PlacementFollowsRelocTag ==
    /\ \A i \in PlacementCalls :
          IF ctr.reloc # NULL
          THEN /\ calls[i].fn = "emalloc_reserved_aligned"
               /\ calls[i].min = RelocMin
               /\ calls[i].max = RelocMax
          ELSE calls[i].fn = "emalloc_fixed_addr"
    /\ pc \in {"image_loaded", "modules_loaded", "modules_failed"} => CallsBy("load_acrn_elf") # {}
    /\ pc \in {"modules_loaded", "modules_failed"} => CallsBy("container_load_modules") # {}

C2_Witness ==
    /\ pc = "modules_loaded"
    /\ ctr.reloc # NULL
    /\ \E i \in CallsBy("load_acrn_elf") : calls[i].fn = "emalloc_reserved_aligned"
    /\ \E i \in CallsBy("container_load_modules") : calls[i].fn = "emalloc_reserved_aligned"

----------------------------------------------------------------------------
(* C3 *)

ModuleCopies == {i \in DOMAIN writes : writes[i].by = "container_load_modules"}

\* C3: container_load_modules allocates one region whose requested size is
\* total_modsize, the sum of the page-rounded sizes of the module binaries,
\* whichever the placement, so every byte it copies lies inside the region.
C3_ModuleRegionHoldsModules ==
    pc = "modules_loaded" =>
        /\ ctr.total_modsize = PageRoundedSum(ModulePairs)
        /\ \A i \in CallsBy("container_load_modules") : calls[i].size = ctr.total_modsize
        /\ \A r \in heap : r.what = "mod" =>
              \A i \in ModuleCopies :
                  /\ r.addr <= writes[i].dst
                  /\ writes[i].dst + writes[i].n <= r.addr + r.size

----------------------------------------------------------------------------
(* C4 *)

ModuleCmd(k) == FileOf(cfg, 2 * k + LZH_MOD0_CMD)

ModuleBin(k) == FileOf(cfg, 2 * k + LZH_MOD0_CMD + 1)

CopiedTo(k, dst) ==
    \E i \in ModuleCopies :
        /\ writes[i].dst = dst
        /\ writes[i].src = RecordData(2 * k + LZH_MOD0_CMD + 1)
        /\ writes[i].n = ModuleBin(k).Size

\* C4: after a successful load_modules of a container that has its boot
\* and signature records, fill_module_tag(k) for a module k below the
\* module count writes mod_start = module region base + the page-rounded
\* sizes of the modules before k, which is where load_modules copied
\* module k, mod_end = mod_start + the unrounded size of module k, and the
\* bytes of file record 2k+2 as the command line.
C4_ModuleTagMatchesCopy ==
    \A k \in 0..MaxMods :
        (module_tag.index = k /\ ValidContainer) =>
            /\ k < ModulePairs
            /\ module_tag.type = MULTIBOOT2_TAG_TYPE_MODULE
            /\ module_tag.mod_start = ctr.mod_hpa + PageRoundedSum(k)
            /\ CopiedTo(k, module_tag.mod_start)
            /\ module_tag.mod_end = module_tag.mod_start + ModuleBin(k).Size
            /\ module_tag.cmdline = ModuleCmd(k).Data
            /\ module_tag.size = SizeofTagModule + ModuleCmd(k).Size

C4_Witness ==
    /\ module_tag.index = 1
    /\ ValidContainer
    /\ module_tag.mod_start = ctr.mod_hpa + EFI_PAGE_SIZE
    /\ module_tag.mod_end = module_tag.mod_start + EFI_PAGE_SIZE + 1

----------------------------------------------------------------------------
(* C5 *)

ModulesCounted == pc \in {"modules_loaded", "modules_failed"}

\* C5: for a container with its N >= 3 records, once load_modules has
\* counted, the module count it reports is (N - 3) / 2, the number of
\* (command line, binary) pairs between the boot image and the signature:
\* the subtraction does not wrap.
C5_ModuleCountIsPairs ==
    (ModulesCounted /\ ValidContainer) =>
        /\ container_get_mod_count(ctr) = (cfg.n - 3) \div 2
        /\ container_get_mod_count(ctr) <= MaxMods

C5_Witness ==
    /\ pc = "modules_loaded"
    /\ cfg.n = 7
    /\ container_get_mod_count(ctr) = 2

----------------------------------------------------------------------------
(* C6 *)

ElfSegs == Segs(cfg)

\* the segments the program-header loop does not skip
Loaded(i) == ElfSegs[i].type = PT_LOAD /\ ElfSegs[i].memsz # 0 /\ ElfSegs[i].offset # 0

\* allocated base + (p_paddr - start of the load range)
SegDest(i) == ctr.hv_hpa + (ElfSegs[i].paddr - LoadAddrOf(ctr))

\* byte j of the destination of segment i is what the claim describes
SegByteRight(i, j) ==
    MemByte(SegDest(i) + j) =
        IF j < ElfSegs[i].filesz
        THEN Byte(RecordData(LZH_BOOT_IMG) + ElfSegs[i].offset + j)
        ELSE 0

\* a later loaded segment covers address a
Superseded(i, a) ==
    \E k \in DOMAIN ElfSegs :
        /\ k > i
        /\ Loaded(k)
        /\ SegDest(k) <= a
        /\ a < SegDest(k) + ElfSegs[k].memsz

\* C6 as stated: after load_acrn_elf returned success, every PT_LOAD
\* segment has filesz <= memsz (otherwise an error was returned), its
\* destination bytes [0, filesz) equal the source bytes at its file
\* offset and the bytes [filesz, memsz) are zero.
C6_EveryPtLoadSegment ==
    pc = "image_loaded" =>
        \A i \in DOMAIN ElfSegs :
            ElfSegs[i].type = PT_LOAD =>
                /\ ElfSegs[i].filesz <= ElfSegs[i].memsz
                /\ \A j \in 0..(ElfSegs[i].memsz - 1) : SegByteRight(i, j)

\* C6 amended: after load_acrn_elf returned success, every PT_LOAD segment
\* with non-zero memsz and non-zero file offset has filesz <= memsz, and
\* each of its destination bytes that no later such segment covers equals
\* the source byte (below filesz) or zero (from filesz to memsz).
C6_EveryLoadedSegment ==
    pc = "image_loaded" =>
        \A i \in DOMAIN ElfSegs :
            Loaded(i) =>
                /\ ElfSegs[i].filesz <= ElfSegs[i].memsz
                /\ \A j \in 0..(ElfSegs[i].memsz - 1) :
                       Superseded(i, SegDest(i) + j) \/ SegByteRight(i, j)

C6_Witness ==
    /\ pc = "image_loaded"
    /\ \E i \in DOMAIN ElfSegs :
           /\ Loaded(i)
           /\ ElfSegs[i].filesz < ElfSegs[i].memsz
           /\ MemByte(SegDest(i)) = SegData[1]
           /\ MemByte(SegDest(i) + ElfSegs[i].filesz) = 0

----------------------------------------------------------------------------
(* C7 *)

CmdSize == FileOf(cfg, LZH_BOOT_CMD).Size

OptLen == Len(cfg.opt.chars)

TagFilled == bootcmd_tag.type = MULTIBOOT2_TAG_TYPE_CMDLINE /\ cfg.opt.present

\* what both statements of C7 share: the size field, the command bytes,
\* the space, and nothing written behind the string
BootcmdFrame ==
    /\ bootcmd_tag.size = SizeofTagString + CmdSize + OptLen
    /\ bootcmd_tag.size = SizeofTagString + container_get_boot_cmdsize(ctr)
    /\ \A j \in 1..(CmdSize - 1) : bootcmd_tag.string[j] = FileOf(cfg, LZH_BOOT_CMD).Data[j]
    /\ bootcmd_tag.string[CmdSize] = 32
    /\ \A j \in (CmdSize + OptLen + 1)..Len(bootcmd_tag.string) : bootcmd_tag.string[j] = -1

\* C7 as stated: for a command-line record of size S and an option string
\* of length L the tag's size is header size + S + L and its string is the
\* first S-1 command bytes, a space at position S-1, then the L option
\* characters in order, and nothing past position S+L-1.
C7_BootcmdTagHoldsOptionChars ==
    TagFilled =>
        /\ BootcmdFrame
        /\ \A j \in 1..OptLen : bootcmd_tag.string[CmdSize + j] = cfg.opt.chars[j]

\* C7 amended: as above, but each option character, a 16-bit CHAR16, is
\* stored as its low eight bits.
C7_BootcmdTagHoldsNarrowedChars ==
    TagFilled =>
        /\ BootcmdFrame
        /\ \A j \in 1..OptLen : bootcmd_tag.string[CmdSize + j] = cfg.opt.chars[j] % 256

C7_Witness ==
    /\ TagFilled
    /\ OptLen = 2
    /\ bootcmd_tag.string[CmdSize] = 32
    /\ bootcmd_tag.string[CmdSize + 1] = 113
    /\ bootcmd_tag.string[CmdSize + 2] = 65

----------------------------------------------------------------------------
(* C8 *)

HeadersScanned == scans # <<>>

\* what the container was built with inside the scanned window
V2Valid == cfg.v2 = "ok"

V1Valid == cfg.v1 \/ cfg.cmd = "mb1"

V1Scans == {i \in DOMAIN scans : scans[i].fn = "find_mb1header"}

NothingPlaced ==
    /\ CallsBy("load_acrn_elf") = {}
    /\ \A r \in heap : r.kind # "pages"
    /\ writes = <<>>

ScanOrder ==
    /\ scans[1].fn = "find_mb2header"
    /\ \A i \in V1Scans : i = 2 /\ ~V2Valid
    /\ ~V2Valid => V1Scans # {}
    /\ (~V2Valid /\ V1Valid) => ctr.mb_version = 1
    /\ (~V2Valid /\ ~V1Valid) => (err = EFI_INVALID_PARAMETER /\ ctr.mb_version = 0 /\ NothingPlaced)

\* C8 as stated: the v2 scan comes first; whenever a valid v2 header is in
\* the window the recorded version is 2, also with a valid v1 header
\* present; the v1 scan runs only if no v2 header was found, and then the
\* version is 1; with neither, an error is returned and nothing allocated.
C8_V2HeaderMeansVersion2 ==
    HeadersScanned =>
        /\ ScanOrder
        /\ V2Valid => ctr.mb_version = 2

TagsAccepted == parse_mb2header(scans[1].found, ctr).ret = 0

\* C8 amended: as above, but with a valid v2 header in the window the
\* version is 2 only when parse_mb2header accepts its tag list; when it
\* rejects the list an error is returned with no version recorded, no v1
\* scan and nothing allocated.
C8_AcceptedV2HeaderMeansVersion2 ==
    HeadersScanned =>
        /\ ScanOrder
        /\ (V2Valid /\ TagsAccepted) => ctr.mb_version = 2
        /\ (V2Valid /\ ~TagsAccepted) =>
               (err = EFI_INVALID_PARAMETER /\ ctr.mb_version = 0 /\ NothingPlaced)

C8_Witness ==
    /\ HeadersScanned
    /\ V2Valid
    /\ cfg.v1
    /\ ctr.mb_version = 2
    /\ pc = "image_loaded"

----------------------------------------------------------------------------
(* C9 *)

HasTag(kind) == \E i \in DOMAIN cfg.tags : cfg.tags[i] = kind

EntryWithoutLoadAddr == V2Valid /\ HasTag("entry") /\ ~HasTag("addr")

\* C9: when the v2 tag list has an entry-address tag with a non-zero entry
\* address and no load-address tag, parse_mb2header rejects the header and
\* load_boot_image returns an error, no version recorded, nothing
\* allocated and nothing copied.
C9_EntryWithoutLoadAddrRejected ==
    (HeadersScanned /\ EntryWithoutLoadAddr) =>
        /\ err = EFI_INVALID_PARAMETER
        /\ ctr.mb_version = 0
        /\ CallsBy("load_acrn_elf") = {}
        /\ \A r \in heap : r.kind # "pages"
        /\ \A i \in DOMAIN writes : writes[i].by # "load_acrn_elf"

----------------------------------------------------------------------------
(* C10 *)

\* C10: both signature scans of load_boot_image read the bytes of the
\* container record at index 1, the boot image, and never those of the
\* record at index 0, the boot command line.
C10_ScansReadBootImage ==
    \A i \in DOMAIN scans :
        /\ scans[i].buffer = RecordData(LZH_BOOT_IMG)
        /\ scans[i].buffer # RecordData(LZH_BOOT_CMD)

----------------------------------------------------------------------------
(* C11 *)

\* the reads of load_addr and load_end_addr through a NULL ctr->laddr
NullLaddrReads ==
    {"container_load_boot_image reads ctr->laddr, which is NULL",
     "container_load_modules reads ctr->laddr, which is NULL"}

\* C11: load_boot_image and load_modules read the load-address range only
\* when a load-address tag was recorded: for an image the header parsing
\* accepted without one (a v1-only image, a v2 header without an address
\* tag) no read goes through the absent record and the placement step,
\* the allocation of load_acrn_elf or of container_load_modules, is never
\* reached with it absent.
C11_LoadRangeReadNeedsAddressTag ==
    /\ NullLaddrReads \cap faults = {}
    /\ PlacementCalls # {} => ctr.laddr # NULL

====
